---- MODULE Spec2Model ----
(***************************************************************************)
(* panopticon (src/src/panopticon/main.py): the camera monitor             *)
(* (monitor_cameras), the fetch client (request_image), the broadcast hub  *)
(* (IMAGE, CAM_ID, IMAGE_ID under the condition variable IMAGE_CV,         *)
(* written by handle_new_image) and the /mjpeg subscribers (get_img).      *)
(*                                                                         *)
(* One step of the model is the code between two suspension points of a    *)
(* thread: a network request, a sleep, an acquisition of IMAGE_CV, a       *)
(* Condition.wait, or a generator's yield.                                 *)
(***************************************************************************)
EXTENDS Integers, Sequences, FiniteSets, TLC

\* ------------------------------------------------------------ bounds
\* Most rows of the cameras CSV (their ids are 1, 2, ...).
NumCams == 2
\* Most /mjpeg connections the clients ever open.
NumSubs == 2
\* The clock stops here: a sleep that would pass it does not end.
MaxTime == 5

\* ------------------------------------------------------------ constants
\* args.resolution (main.py:225), and some other picture height.
Resolution == 1080
OtherHeight == Resolution - 360
\* The lookahead of the expiring bucket (main.py:126).
Threshold == 5
\* time.sleep(1) of the revalidation loop and time.sleep(3) of the cycle.
PollSleep == 1
Cooldown == 3
\* A header value is a sequence of elements: the double quote character,
\* and a run of other characters taken as one element.
QUOTE == "dq"
\* The ETag of the "camera offline" placeholder picture (main.py:60).
SENTINEL == <<"3098b5594c26b8f0fd53420ad094f2df">>
\* The contents of init.jpg (main.py:247), which came from no camera.
InitImage == <<0, <<"init.jpg">>>>

Cams == 1..NumCams
Subs == 1..NumSubs

\* Fingerprints of pictures a camera may serve (besides the placeholder).
Tags == {<<"e1">>, <<"e2">>}
\* Seconds between a response's arrival and its Expires header: already
\* past, this very second, and Threshold seconds ahead.
ExpOffsets == {-1, 0, 5}

\* Python's None.
None == [none |-> TRUE]

\* ------------------------------------------------------------ pure functions
\* str.strip('"') on a header value, a sequence of elements (main.py:67).
RECURSIVE LStrip(_)
LStrip(s) == IF s # <<>> /\ Head(s) = QUOTE THEN LStrip(Tail(s)) ELSE s

RECURSIVE RStrip(_)
RStrip(s) ==
  IF s # <<>> /\ s[Len(s)] = QUOTE THEN RStrip(SubSeq(s, 1, Len(s) - 1)) ELSE s

Strip(s) == RStrip(LStrip(s))

\* An ETag header as the server may send it: bare or quoted.
Bare(t) == t
Quoted(t) == <<QUOTE>> \o t \o <<QUOTE>>
ETagHeaders == {Bare(t) : t \in Tags \cup {SENTINEL}}
                 \cup {Quoted(t) : t \in Tags \cup {SENTINEL}}

\* A response that passes every check, and one response per way of failing.
OkResponse(etag, expires, height) ==
  [exc |-> FALSE, status |-> 200, ctype |-> "image/jpeg", etag |-> etag,
   dates |-> TRUE, expires |-> expires, zone |-> TRUE, height |-> height]

\* The response r, its Expires header naming no time zone ("-0000", or
\* none at all): parsedate_to_datetime parses it to a naive datetime.
NoZone(r) == [r EXCEPT !.zone = FALSE]

\* Responses that fail one check of request_image each.
Failures(t) ==
  {[OkResponse(<<"e1">>, t + 5, Resolution) EXCEPT !.exc = TRUE],
   [OkResponse(<<"e1">>, t + 5, Resolution) EXCEPT !.status = 404],
   [OkResponse(<<"e1">>, t + 5, Resolution) EXCEPT !.ctype = "text/html"],
   [OkResponse(<<"e1">>, t + 5, Resolution) EXCEPT !.dates = FALSE],
   OkResponse(SENTINEL, t + 5, Resolution)}

\* What the network may answer at time t. heights: the picture heights the
\* body may decode to (0: the body is no picture).
Responses(t, heights) ==
  {OkResponse(e, t + o, h) : e \in ETagHeaders, o \in ExpOffsets, h \in heights}
    \cup {NoZone(OkResponse(e, t + 5, Resolution)) : e \in Tags}
    \cup Failures(t)

\* r.content of a response: the fingerprint is a hash of the picture.
Content(cam_id, etag) == <<cam_id, etag>>

\* request_image up to its call of the handler: None, or the metadata.
\* Date and Last-Modified are parsed (r.dates) and stored but never read;
\* aware: the parsed Expires has a tzinfo.
Metadata(cam_id, r) ==
  IF r.exc THEN None
  ELSE IF r.status # 200 THEN None
  ELSE IF r.ctype # "image/jpeg" THEN None
  ELSE IF r.etag = SENTINEL THEN None
  ELSE IF ~r.dates THEN None
  ELSE [cam_id |-> cam_id, ETag |-> Strip(r.etag), Expires |-> r.expires,
        aware |-> r.zone]

\* request_image(cam_id, get_height): Image.open raises on a body that is
\* no picture, and the except clause turns that into None.
ProbeResult(cam_id, r) ==
  IF Metadata(cam_id, r) # None /\ r.height = 0 THEN None ELSE Metadata(cam_id, r)

\* get_delta: seconds from t to the record's Expires.
get_delta(camera, t) == camera.Expires - t

\* get_delta raises TypeError: datetime.now(timezone.utc) is aware, and an
\* aware datetime cannot be subtracted from a naive one.
Raises(camera) == ~camera.aware

\* ------------------------------------------------------------ state
VARIABLES
  CAMERA_INFO,   \* the cam_ids of the CSV, in its order (load_cameras)
  now,           \* datetime.now(timezone.utc), in seconds
  CAMERAS,       \* cam_id -> metadata of the admitted cameras
  CAMERA_STATS,  \* cam_id -> hits
  IMAGE,         \* the picture on the air
  CAM_ID,        \* the camera it came from
  IMAGE_ID,      \* its version
  IMAGE_CV,      \* the subscribers holding the condition's lock: {} or {s}
  pc,            \* where monitor_cameras stands ("dead": it has ended)
  idx,           \* position of its current for loop (1-based)
  expired,       \* the list expired of the current cycle
  expiring,      \* the list expiring of the current cycle
  found_one,     \* found_one of the current cycle
  metadata,      \* what the last call of request_image made: None or metadata
  sub,           \* subscriber -> [pc, cur_id] of its get_img generator
  yields,        \* history: subscriber -> the <<frame, version>> it yielded
  lastKept,      \* history: cam_id -> Expires of its last successful fetch,
                 \*   the fetches of line 139 left out
  pubs,          \* history: calls of handle_new_image in the current cycle
  unavailable    \* history: expired cameras whose fetch failed this cycle

vars == <<CAMERA_INFO, now, CAMERAS, CAMERA_STATS, IMAGE, CAM_ID, IMAGE_ID,
          IMAGE_CV, pc,
          idx, expired, expiring, found_one, metadata, sub, yields,
          lastKept, pubs, unavailable>>

hub == <<IMAGE, CAM_ID, IMAGE_ID>>
cycle == <<expired, expiring, found_one>>
subscribers == <<sub, yields, IMAGE_CV>>
history == <<lastKept, pubs, unavailable>>

\* CAMERAS.items(): cameras are admitted in the order of CAMERA_INFO and a
\* key that is assigned again keeps its place.
AdmittedOrder == SelectSeq(CAMERA_INFO, LAMBDA c : c \in DOMAIN CAMERAS)

Range(s) == {s[i] : i \in 1..Len(s)}

\* random.shuffle: any order of the same members.
Shuffles(s) ==
  {p \in [1..Len(s) -> Range(s)] : \A i, j \in 1..Len(s) : i # j => p[i] # p[j]}

\* The runs that are explored: a CSV of NumCams cameras with one client,
\* and a CSV of one camera with NumSubs clients.
Scenarios == {[cams |-> NumCams, subs |-> 1], [cams |-> 1, subs |-> NumSubs]}

Start(sc) ==
  /\ CAMERA_INFO = [i \in 1..sc.cams |-> i]
  /\ sub = [s \in Subs |-> [pc |-> IF s <= sc.subs THEN "idle" ELSE "absent",
                             cur_id |-> 0]]
  /\ now = 0
  /\ CAMERAS = << >>
  /\ CAMERA_STATS = << >>
  /\ IMAGE = InitImage
  /\ CAM_ID = 0
  /\ IMAGE_ID = 0
  /\ IMAGE_CV = {}
  /\ pc = "probe"
  /\ idx = 1
  /\ expired = << >>
  /\ expiring = << >>
  /\ found_one = FALSE
  /\ metadata = None
  /\ yields = [s \in Subs |-> << >>]
  /\ lastKept = [c \in Cams |-> None]
  /\ pubs = 0
  /\ unavailable = {}

Init == \E sc \in Scenarios : Start(sc)

\* ------------------------------------------------------------ request_image
\* The camera the scheduler fetches next: cam_id of its current for loop.
Target ==
  CASE pc = "probe" -> CAMERA_INFO[idx]
    [] pc \in {"detect", "refetch", "publish", "install"} -> expiring[idx]
    [] pc = "refresh" -> expired[idx]
    [] OTHER -> 0

\* History: request_image returned metadata m for cam_id, at line 107, 145
\* or 153 (kept for the cameras of CAMERAS only).
Fetched(cam_id, m) ==
  lastKept' = IF cam_id \in DOMAIN CAMERAS'
              THEN [lastKept EXCEPT ![cam_id] = [Expires |-> m.Expires]]
              ELSE lastKept

\* ------------------------------------------------------------ monitor_cameras
\* Lines 100-111: the startup probe of one camera, from its request to the
\* admission.
Probe ==
  /\ pc = "probe"
  /\ \E r \in Responses(now, {Resolution, OtherHeight, 0}) :
       LET cam_id == Target
           m == ProbeResult(cam_id, r)
       IN /\ metadata' = m
          /\ CAMERAS' = IF m # None /\ r.height = Resolution
                        THEN CAMERAS @@ (cam_id :> m)
                        ELSE CAMERAS
          /\ IF m # None
             THEN Fetched(cam_id, m)
             ELSE UNCHANGED lastKept
  /\ IF idx < Len(CAMERA_INFO)
     THEN /\ idx' = idx + 1
          /\ pc' = "probe"
     ELSE /\ idx' = 1
          /\ pc' = "stats"
  /\ UNCHANGED <<CAMERA_INFO, now, CAMERA_STATS, hub, cycle, subscribers, pubs,
                 unavailable>>

\* InitStats with a bug: a stats entry for every camera of the CSV.
InitStats_AllConfigured ==
  /\ pc = "stats"
  /\ CAMERA_STATS' = [c \in Range(CAMERA_INFO) |-> 0]
  /\ pc' = "classify"
  /\ UNCHANGED <<CAMERA_INFO, now, CAMERAS, hub, idx, cycle, metadata,
                 subscribers, history>>

\* Lines 113-117.
InitStats ==
  /\ pc = "stats"
  /\ CAMERA_STATS' = [c \in DOMAIN CAMERAS |-> 0]
  /\ pc' = "classify"
  /\ UNCHANGED <<CAMERA_INFO, now, CAMERAS, hub, idx, cycle, metadata,
                 subscribers, history>>

\* Where the cycle goes once the revalidation loop of lines 133-150 is over.
AfterRevalidation(exp) == IF Len(exp) > 0 THEN "refresh" ELSE "cooldown"

\* Classify with a bug: a camera that expires in exactly Threshold seconds
\* counts as expiring.
Classify_Inclusive ==
  /\ pc = "classify"
  /\ LET exd == SelectSeq(AdmittedOrder,
                          LAMBDA c : get_delta(CAMERAS[c], now) < 0)
         exg == SelectSeq(AdmittedOrder,
                          LAMBDA c : /\ ~(get_delta(CAMERAS[c], now) < 0)
                                     /\ get_delta(CAMERAS[c], now) <= Threshold)
     IN IF \E c \in DOMAIN CAMERAS : Raises(CAMERAS[c])
        THEN /\ pc' = "dead"
             /\ UNCHANGED <<expired, expiring>>
        ELSE /\ expired' = exd
             /\ expiring' = exg
             /\ pc' = IF Len(exg) > 0 THEN "sleep1" ELSE AfterRevalidation(exd)
  /\ found_one' = FALSE
  /\ idx' = 1
  /\ pubs' = 0
  /\ unavailable' = {}
  /\ UNCHANGED <<CAMERA_INFO, now, CAMERAS, CAMERA_STATS, hub, metadata,
                 subscribers, lastKept>>

\* Lines 120-133: the two buckets, and the first test of the while loop.
\* An exception of get_delta (line 123) is caught nowhere: it ends
\* monitor_cameras and its thread.
Classify ==
  /\ pc = "classify"
  /\ LET exd == SelectSeq(AdmittedOrder,
                          LAMBDA c : get_delta(CAMERAS[c], now) < 0)
         exg == SelectSeq(AdmittedOrder,
                          LAMBDA c : /\ ~(get_delta(CAMERAS[c], now) < 0)
                                     /\ get_delta(CAMERAS[c], now) < Threshold)
     IN IF \E c \in DOMAIN CAMERAS : Raises(CAMERAS[c])
        THEN /\ pc' = "dead"
             /\ UNCHANGED <<expired, expiring>>
        ELSE /\ expired' = exd
             /\ expiring' = exg
             /\ pc' = IF Len(exg) > 0 THEN "sleep1" ELSE AfterRevalidation(exd)
  /\ found_one' = FALSE
  /\ idx' = 1
  /\ pubs' = 0
  /\ unavailable' = {}
  /\ UNCHANGED <<CAMERA_INFO, now, CAMERAS, CAMERA_STATS, hub, metadata,
                 subscribers,
                 lastKept>>

\* Tick with a bug: the for loop starts at the second member of a bucket
\* that has one.
Tick_SkipsFirst ==
  /\ pc = "sleep1"
  /\ now + PollSleep <= MaxTime
  /\ now' = now + PollSleep
  /\ expiring' \in Shuffles(expiring)
  /\ pc' = "detect"
  /\ idx' = IF Len(expiring) > 1 THEN 2 ELSE 1
  /\ UNCHANGED <<CAMERA_INFO, CAMERAS, CAMERA_STATS, hub, expired, found_one,
                 metadata, subscribers, history>>

\* Lines 135-136: the sleep of one tick ends and the bucket is shuffled.
Tick ==
  /\ pc = "sleep1"
  /\ now + PollSleep <= MaxTime
  /\ now' = now + PollSleep
  /\ expiring' \in Shuffles(expiring)
  /\ pc' = "detect"
  /\ idx' = 1
  /\ UNCHANGED <<CAMERA_INFO, CAMERAS, CAMERA_STATS, hub, expired, found_one,
                 metadata,
                 subscribers, history>>

\* NextMember with a bug: after the last member the while loop is left.
NextMember_EndsPhase ==
  IF idx < Len(expiring)
  THEN /\ idx' = idx + 1
       /\ pc' = "detect"
  ELSE /\ idx' = 1
       /\ pc' = AfterRevalidation(expired)

\* The for loop of line 137 goes on to its next member; after the last one
\* the while loop of line 133 goes round (expiring is not empty and
\* found_one is False).
NextMember ==
  IF idx < Len(expiring)
  THEN /\ idx' = idx + 1
       /\ pc' = "detect"
  ELSE /\ idx' = 1
       /\ pc' = "sleep1"

\* Changed with a bug: every successful fetch counts as a change.
Changed_Always(m, cam) == m # None

\* Line 140: is the fetched fingerprint another one than the stored?
Changed(m, cam) == m # None /\ m.ETag # cam.ETag

\* Lines 138-140: an expiring camera is fetched and compared.
Detect ==
  /\ pc = "detect"
  /\ \E r \in Responses(now, {Resolution}) :
       LET cam_id == Target
           cam == CAMERAS[cam_id]
           m == Metadata(cam_id, r)
       IN /\ metadata' = m
          /\ IF Changed(m, cam)
             THEN /\ pc' = "refetch"
                  /\ idx' = idx
             ELSE NextMember
  /\ UNCHANGED <<CAMERA_INFO, now, CAMERAS, CAMERA_STATS, hub, cycle,
                 subscribers, history>>

\* Lines 145-146: the camera is fetched again. request_image either gives
\* up (and the for loop goes on) or is about to call handle_new_image.
Refetch ==
  /\ pc = "refetch"
  /\ \E r \in Responses(now, {Resolution}) :
       LET m == Metadata(Target, r)
       IN /\ metadata' = m
          /\ IF m = None
             THEN NextMember
             ELSE /\ pc' = "publish"
                  /\ idx' = idx
  /\ UNCHANGED <<CAMERA_INFO, now, CAMERAS, CAMERA_STATS, hub, cycle,
                 subscribers, history>>

\* NotifyAll with a bug: notify(), which wakes one of the waiting.
NotifyOne ==
  [s \in Subs |-> IF /\ sub[s].pc = "wait"
                     /\ \A t \in Subs : sub[t].pc = "wait" => s <= t
                  THEN [sub[s] EXCEPT !.pc = "woken"]
                  ELSE sub[s]]

\* IMAGE_CV.notify_all(): every subscriber in wait() is woken.
NotifyAll ==
  [s \in Subs |-> IF sub[s].pc = "wait" THEN [sub[s] EXCEPT !.pc = "woken"]
                  ELSE sub[s]]

\* handle_new_image with a bug: nobody is notified.
handle_new_image_NoNotify ==
  /\ pc = "publish"
  /\ IMAGE_CV = {}
  /\ IMAGE' = Content(metadata.cam_id, metadata.ETag)
  /\ CAM_ID' = metadata.cam_id
  /\ IMAGE_ID' = IMAGE_ID + 1
  /\ pc' = "install"
  /\ pubs' = pubs + 1
  /\ UNCHANGED <<CAMERA_INFO, now, CAMERAS, CAMERA_STATS, IMAGE_CV, idx, cycle,
                 metadata, sub, yields, lastKept, unavailable>>

\* handle_new_image with a bug: IMAGE_ID is not incremented.
handle_new_image_NoBump ==
  /\ pc = "publish"
  /\ IMAGE_CV = {}
  /\ IMAGE' = Content(metadata.cam_id, metadata.ETag)
  /\ CAM_ID' = metadata.cam_id
  /\ IMAGE_ID' = IMAGE_ID
  /\ sub' = NotifyAll
  /\ pc' = "install"
  /\ pubs' = pubs + 1
  /\ UNCHANGED <<CAMERA_INFO, now, CAMERAS, CAMERA_STATS, IMAGE_CV, idx, cycle,
                 metadata, yields, lastKept, unavailable>>

\* handle_new_image (lines 84-95), called at line 72 with r.content: the
\* body runs once IMAGE_CV is free and gives it back.
handle_new_image ==
  /\ pc = "publish"
  /\ IMAGE_CV = {}
  /\ IMAGE' = Content(metadata.cam_id, metadata.ETag)
  /\ CAM_ID' = metadata.cam_id
  /\ IMAGE_ID' = IMAGE_ID + 1
  /\ sub' = NotifyAll
  /\ pc' = "install"
  /\ pubs' = pubs + 1
  /\ UNCHANGED <<CAMERA_INFO, now, CAMERAS, CAMERA_STATS, IMAGE_CV, idx, cycle,
                 metadata,
                 yields, lastKept, unavailable>>

\* Install with a bug: the metadata of the second fetch is not stored.
Install_KeepsRecord ==
  /\ pc = "install"
  /\ LET cam_id == Target
     IN /\ CAMERAS' = CAMERAS
        /\ CAMERA_STATS' = [CAMERA_STATS EXCEPT ![cam_id] = @ + 1]
        /\ Fetched(cam_id, CAMERAS[cam_id])
  /\ found_one' = TRUE
  /\ pc' = AfterRevalidation(expired)
  /\ idx' = 1
  /\ UNCHANGED <<CAMERA_INFO, now, hub, expired, expiring, metadata,
                 subscribers, pubs, unavailable>>

\* Install with a bug: the hit is not counted.
Install_NoHit ==
  /\ pc = "install"
  /\ LET cam_id == Target
     IN /\ CAMERAS' = [CAMERAS EXCEPT ![cam_id] = metadata]
        /\ CAMERA_STATS' = CAMERA_STATS
        /\ Fetched(cam_id, metadata)
  /\ found_one' = TRUE
  /\ pc' = AfterRevalidation(expired)
  /\ idx' = 1
  /\ UNCHANGED <<CAMERA_INFO, now, hub, expired, expiring, metadata,
                 subscribers, pubs, unavailable>>

\* Install with a bug: no break, the for loop of line 137 goes on.
Install_NoBreak ==
  /\ pc = "install"
  /\ LET cam_id == Target
     IN /\ CAMERAS' = [CAMERAS EXCEPT ![cam_id] = metadata]
        /\ CAMERA_STATS' = [CAMERA_STATS EXCEPT ![cam_id] = @ + 1]
        /\ Fetched(cam_id, metadata)
  /\ found_one' = TRUE
  /\ IF idx < Len(expiring)
     THEN /\ idx' = idx + 1
          /\ pc' = "detect"
     ELSE /\ idx' = 1
          /\ pc' = AfterRevalidation(expired)
  /\ UNCHANGED <<CAMERA_INFO, now, hub, expired, expiring, metadata,
                 subscribers, pubs, unavailable>>

\* Lines 146-150: request_image has returned the metadata.
Install ==
  /\ pc = "install"
  /\ LET cam_id == Target
     IN /\ CAMERAS' = [CAMERAS EXCEPT ![cam_id] = metadata]
        /\ CAMERA_STATS' = [CAMERA_STATS EXCEPT ![cam_id] = @ + 1]
        /\ Fetched(cam_id, metadata)
  /\ found_one' = TRUE
  /\ pc' = AfterRevalidation(expired)
  /\ idx' = 1
  /\ UNCHANGED <<CAMERA_INFO, now, hub, expired, expiring, metadata,
                 subscribers, pubs,
                 unavailable>>

\* Refresh with a bug: a record is only replaced by one of the same
\* fingerprint.
Refresh_ChecksChange ==
  /\ pc = "refresh"
  /\ \E r \in Responses(now, {Resolution}) :
       LET cam_id == Target
           m == Metadata(cam_id, r)
       IN /\ metadata' = m
          /\ IF m # None
             THEN /\ CAMERAS' = IF m.ETag = CAMERAS[cam_id].ETag
                                THEN [CAMERAS EXCEPT ![cam_id] = m]
                                ELSE CAMERAS
                  /\ Fetched(cam_id, CAMERAS'[cam_id])
                  /\ UNCHANGED unavailable
             ELSE /\ unavailable' = unavailable \cup {cam_id}
                  /\ UNCHANGED <<CAMERAS, lastKept>>
  /\ IF idx < Len(expired)
     THEN /\ idx' = idx + 1
          /\ pc' = "refresh"
     ELSE /\ idx' = 1
          /\ pc' = "cooldown"
  /\ UNCHANGED <<CAMERA_INFO, now, CAMERA_STATS, hub, cycle, subscribers, pubs>>

\* Refresh with a bug: a successful fetch of an expired camera counts as
\* a hit.
Refresh_CountsHit ==
  /\ pc = "refresh"
  /\ \E r \in Responses(now, {Resolution}) :
       LET cam_id == Target
           m == Metadata(cam_id, r)
       IN /\ metadata' = m
          /\ IF m # None
             THEN /\ CAMERAS' = [CAMERAS EXCEPT ![cam_id] = m]
                  /\ CAMERA_STATS' = [CAMERA_STATS EXCEPT ![cam_id] = @ + 1]
                  /\ Fetched(cam_id, m)
                  /\ UNCHANGED unavailable
             ELSE /\ unavailable' = unavailable \cup {cam_id}
                  /\ UNCHANGED <<CAMERAS, CAMERA_STATS, lastKept>>
  /\ IF idx < Len(expired)
     THEN /\ idx' = idx + 1
          /\ pc' = "refresh"
     ELSE /\ idx' = 1
          /\ pc' = "cooldown"
  /\ UNCHANGED <<CAMERA_INFO, now, hub, cycle, subscribers, pubs>>

\* Refresh with a bug: the metadata of a successful fetch is not stored.
Refresh_KeepsRecord ==
  /\ pc = "refresh"
  /\ \E r \in Responses(now, {Resolution}) :
       LET cam_id == Target
           m == Metadata(cam_id, r)
       IN /\ metadata' = m
          /\ CAMERAS' = CAMERAS
          /\ IF m # None
             THEN /\ Fetched(cam_id, m)
                  /\ UNCHANGED unavailable
             ELSE /\ unavailable' = unavailable \cup {cam_id}
                  /\ UNCHANGED lastKept
  /\ IF idx < Len(expired)
     THEN /\ idx' = idx + 1
          /\ pc' = "refresh"
     ELSE /\ idx' = 1
          /\ pc' = "cooldown"
  /\ UNCHANGED <<CAMERA_INFO, now, CAMERA_STATS, hub, cycle, subscribers, pubs>>

\* Refresh with a bug: a failed fetch pushes the stored Expires forward.
Refresh_FailureRenews ==
  /\ pc = "refresh"
  /\ \E r \in Responses(now, {Resolution}) :
       LET cam_id == Target
           m == Metadata(cam_id, r)
       IN /\ metadata' = m
          /\ IF m # None
             THEN /\ CAMERAS' = [CAMERAS EXCEPT ![cam_id] = m]
                  /\ Fetched(cam_id, m)
                  /\ UNCHANGED unavailable
             ELSE /\ unavailable' = unavailable \cup {cam_id}
                  /\ CAMERAS' = [CAMERAS EXCEPT ![cam_id].Expires = now + Threshold]
                  /\ UNCHANGED lastKept
  /\ IF idx < Len(expired)
     THEN /\ idx' = idx + 1
          /\ pc' = "refresh"
     ELSE /\ idx' = 1
          /\ pc' = "cooldown"
  /\ UNCHANGED <<CAMERA_INFO, now, CAMERA_STATS, hub, cycle, subscribers, pubs>>

\* Lines 152-155: an expired camera is fetched.
Refresh ==
  /\ pc = "refresh"
  /\ \E r \in Responses(now, {Resolution}) :
       LET cam_id == Target
           m == Metadata(cam_id, r)
       IN /\ metadata' = m
          /\ IF m # None
             THEN /\ CAMERAS' = [CAMERAS EXCEPT ![cam_id] = m]
                  /\ Fetched(cam_id, m)
                  /\ UNCHANGED unavailable
             ELSE /\ unavailable' = unavailable \cup {cam_id}
                  /\ UNCHANGED <<CAMERAS, lastKept>>
  /\ IF idx < Len(expired)
     THEN /\ idx' = idx + 1
          /\ pc' = "refresh"
     ELSE /\ idx' = 1
          /\ pc' = "cooldown"
  /\ UNCHANGED <<CAMERA_INFO, now, CAMERA_STATS, hub, cycle, subscribers, pubs>>

\* Line 157: the sleep between two cycles ends.
Sleep ==
  /\ pc = "cooldown"
  /\ now + Cooldown <= MaxTime
  /\ now' = now + Cooldown
  /\ pc' = "classify"
  /\ UNCHANGED <<CAMERA_INFO, CAMERAS, CAMERA_STATS, hub, idx, cycle, metadata,
                 subscribers,
                 history>>

monitor_cameras ==
  \/ Probe
  \/ InitStats
  \/ Classify
  \/ Tick
  \/ Detect
  \/ Refetch
  \/ handle_new_image
  \/ Install
  \/ Refresh
  \/ Sleep

\* ------------------------------------------------------------ mjpeg.get_img
\* A client opens /mjpeg: the generator exists and has not run yet.
Attach(s) ==
  /\ sub[s].pc = "idle"
  /\ sub' = [sub EXCEPT ![s].pc = "enter"]
  /\ UNCHANGED <<CAMERA_INFO, now, CAMERAS, CAMERA_STATS, hub, IMAGE_CV, pc,
                 idx, cycle,
                 metadata, yields, history>>

\* Yield with a bug: the picture is yielded without taking IMAGE_CV.
Yield_NoLock(s) ==
  /\ sub[s].pc = "enter"
  /\ IMAGE_CV' = IMAGE_CV
  /\ sub' = [sub EXCEPT ![s].pc = "yield"]
  /\ yields' = [yields EXCEPT ![s] = Append(@, <<IMAGE, IMAGE_ID>>)]
  /\ UNCHANGED <<CAMERA_INFO, now, CAMERAS, CAMERA_STATS, hub, pc, idx, cycle,
                 metadata, history>>

\* Lines 180-183: the generator takes IMAGE_CV and yields the picture; it
\* stays suspended at the yield, inside the with block.
Yield(s) ==
  /\ sub[s].pc = "enter"
  /\ IMAGE_CV = {}
  /\ IMAGE_CV' = {s}
  /\ sub' = [sub EXCEPT ![s].pc = "yield"]
  /\ yields' = [yields EXCEPT ![s] = Append(@, <<IMAGE, IMAGE_ID>>)]
  /\ UNCHANGED <<CAMERA_INFO, now, CAMERAS, CAMERA_STATS, hub, pc, idx, cycle,
                 metadata,
                 history>>

\* Resume with a bug: the generator does not wait for a new version.
Resume_NoWait(s) ==
  /\ sub[s].pc = "yield"
  /\ sub' = [sub EXCEPT ![s] = [pc |-> "enter", cur_id |-> IMAGE_ID]]
  /\ IMAGE_CV' = {}
  /\ UNCHANGED <<CAMERA_INFO, now, CAMERAS, CAMERA_STATS, hub, pc, idx, cycle,
                 metadata, yields, history>>

\* Lines 184-186: the consumer asks for the next chunk; the generator reads
\* IMAGE_ID and waits, which gives IMAGE_CV back.
Resume(s) ==
  /\ sub[s].pc = "yield"
  /\ sub' = [sub EXCEPT ![s] = [pc |-> "wait", cur_id |-> IMAGE_ID]]
  /\ IMAGE_CV' = {}
  /\ UNCHANGED <<CAMERA_INFO, now, CAMERAS, CAMERA_STATS, hub, pc, idx, cycle,
                 metadata,
                 yields, history>>

\* Lines 185-187: a notified wait() takes IMAGE_CV again and the loop of
\* line 185 tests cur_id; on a new version the with block is left.
Wake(s) ==
  /\ sub[s].pc = "woken"
  /\ IMAGE_CV = {}
  /\ sub' = [sub EXCEPT ![s].pc = IF sub[s].cur_id = IMAGE_ID THEN "wait"
                                  ELSE "enter"]
  /\ UNCHANGED <<CAMERA_INFO, now, CAMERAS, CAMERA_STATS, hub, IMAGE_CV, pc,
                 idx, cycle,
                 metadata, yields, history>>

\* The client goes away: the server closes the generator, which is
\* suspended at its yield, and the with block gives IMAGE_CV back.
Close(s) ==
  /\ sub[s].pc = "yield"
  /\ sub' = [sub EXCEPT ![s].pc = "closed"]
  /\ IMAGE_CV' = {}
  /\ UNCHANGED <<CAMERA_INFO, now, CAMERAS, CAMERA_STATS, hub, pc, idx, cycle,
                 metadata,
                 yields, history>>

get_img(s) ==
  \/ Attach(s)
  \/ Yield(s)
  \/ Resume(s)
  \/ Wake(s)
  \/ Close(s)

Next ==
  \/ monitor_cameras
  \/ \E s \in Subs : get_img(s)

Spec == Init /\ [][Next]_vars

\* One camera and every client, the subscribers and their consumers
\* scheduled fairly: a generator that can take IMAGE_CV does, a consumer
\* asks for the next chunk, a notified wait() returns. Nothing is asked
\* of the scheduler, of the network or of the clients' arrival.
LiveInit == Start([cams |-> 1, subs |-> NumSubs])

LiveSpec ==
  /\ LiveInit
  /\ [][Next]_vars
  /\ \A s \in Subs :
       WF_vars(Yield(s)) /\ WF_vars(Resume(s)) /\ WF_vars(Wake(s))

\* ------------------------------------------------------------ properties
\* The scheduler takes a step that ends a call of request_image made at
\* line 139 or 153 (every step of the scheduler moves pc or idx).
FetchStep(at) == pc \in at /\ <<pc, idx>>' # <<pc, idx>>

\* C1, as claimed: the stored Expires of a camera is the Expires of the
\* most recent successful fetch of that camera. metadata is the result of
\* the scheduler's most recent fetch, so when it is a success that
\* request_image has returned, it is the most recent successful fetch of
\* metadata.cam_id.
C1_LastFetchHorizon ==
  (/\ metadata # None
   /\ pc \notin {"publish", "install"}
   /\ metadata.cam_id \in DOMAIN CAMERAS)
    => CAMERAS[metadata.cam_id].Expires = metadata.Expires

\* C1, amended: the stored Expires of every admitted camera is the Expires
\* of its most recent successful fetch other than the detection fetches of
\* line 139, whose result is never stored.
C1_KeptHorizon ==
  \A c \in DOMAIN CAMERAS :
    /\ lastKept[c] # None
    /\ CAMERAS[c].Expires = lastKept[c].Expires

\* A camera found expired has been fetched again and its record replaced
\* by one that is not expired.
C1_Witness ==
  /\ pc = "cooldown"
  /\ metadata # None
  /\ metadata.cam_id \in Range(expired)
  /\ CAMERAS[metadata.cam_id] = metadata
  /\ ~Raises(metadata)
  /\ get_delta(metadata, now) >= 0

\* C2, as claimed: a response whose fingerprint, quotes stripped, is the
\* sentinel makes no metadata, no stored record and no picture on the air.
C2_SentinelUnavailable ==
  /\ metadata # None => metadata.ETag # SENTINEL
  /\ \A c \in DOMAIN CAMERAS : CAMERAS[c].ETag # SENTINEL
  /\ IMAGE[2] # SENTINEL

\* C3: IMAGE_ID starts at 0; handle_new_image adds exactly 1 to it, with
\* IMAGE_CV free before and after; no other step changes IMAGE, CAM_ID or
\* IMAGE_ID, and the three change together.
C3_VersionStepsByOne ==
  /\ IMAGE_ID = 0
  /\ [][/\ (pc = "publish" /\ pc' # pc) =>
             /\ IMAGE_ID' = IMAGE_ID + 1
             /\ IMAGE' = Content(metadata.cam_id, metadata.ETag)
             /\ CAM_ID' = metadata.cam_id
             /\ IMAGE_CV = {} /\ IMAGE_CV' = {}
        /\ hub' # hub => pc = "publish" /\ pc' = "install"
        /\ IMAGE_ID' >= IMAGE_ID]_vars

\* Two frames have been published, from two fetches.
C3_Witness == IMAGE_ID = 2 /\ pc = "install" /\ CAM_ID = metadata.cam_id

\* The versions a subscriber has yielded, in order.
Versions(s) == [i \in 1..Len(yields[s]) |-> yields[s][i][2]]

\* C4: a session that waits for a version has already yielded (its first
\* yield waits for no publish); every yield is the picture and version of
\* the hub at that moment, and a later yield has a greater version than
\* the one before.
C4_YieldsIncrease ==
  /\ [](\A s \in Subs : sub[s].pc \in {"wait", "woken"} => Len(yields[s]) > 0)
  /\ [][\A s \in Subs :
          yields'[s] # yields[s] =>
            /\ yields'[s] = Append(yields[s], <<IMAGE, IMAGE_ID>>)
            /\ Len(yields[s]) > 0 => IMAGE_ID > Versions(s)[Len(yields[s])]]_vars

\* A session yielded version 0 and then version 2: it skipped version 1.
C4_Witness == \E s \in Subs : Versions(s) = <<0, 2>>

\* A session that is attached and not closed.
Open(s) == sub[s].pc \in {"enter", "yield", "wait", "woken"}

\* The last <<frame, version>> a session yielded.
LastYield(s) == yields[s][Len(yields[s])]

\* C5: if the publishes stop at version v, then from some moment on every
\* open session has yielded, last of all, the picture of version v.
C5_EventuallyLatest ==
  \A v \in 0..MaxTime :
    <>[](IMAGE_ID = v) =>
      <>[](\A s \in Subs :
            Open(s) => Len(yields[s]) > 0 /\ LastYield(s) = <<IMAGE, v>>)

\* A session that yielded the first picture, waited, and has yielded the
\* picture of the second publish.
C5_Witness ==
  \E s \in Subs :
    /\ Len(yields[s]) >= 2
    /\ Versions(s)[1] = 0
    /\ IMAGE_ID = 2
    /\ LastYield(s) = <<IMAGE, IMAGE_ID>>
    /\ sub[s].pc = "wait"

\* How often a session yielded version v.
Count(s, v) == Cardinality({i \in 1..Len(yields[s]) : yields[s][i][2] = v})

\* C6: no session yields one version twice, and if the first publish is
\* followed by no other, then from some moment on every open session has
\* yielded its picture exactly once.
C6_EachYieldsOnce ==
  /\ [](\A s \in Subs : \A v \in 0..MaxTime : Count(s, v) <= 1)
  /\ <>[](IMAGE_ID = 1) =>
       <>[](\A s \in Subs :
             Open(s) => /\ Count(s, 1) = 1
                        /\ \E i \in 1..Len(yields[s]) : yields[s][i] = <<IMAGE, 1>>)

\* Every client attached before the first publish, and each has yielded
\* the first picture and then the published one.
C6_Witness ==
  /\ IMAGE_ID = 1
  /\ \A s \in Subs : sub[s].pc = "wait" /\ Versions(s) = <<0, 1>>

\* C7: a fetch of line 139 or 153 that returns the fingerprint already
\* stored for the camera changes neither IMAGE_ID, nor any hits, nor the
\* stored fingerprint, and leads to no second fetch; the second fetch of
\* line 145 is only made after another fingerprint was seen.
C7_Idempotent ==
  [][(/\ FetchStep({"detect", "refresh"})
      /\ metadata' # None
      /\ metadata'.ETag = CAMERAS[Target].ETag)
       => /\ hub' = hub
          /\ CAMERA_STATS' = CAMERA_STATS
          /\ CAMERAS'[Target].ETag = CAMERAS[Target].ETag
          /\ pc' \notin {"refetch", "publish", "install"}]_vars

\* A whole tick went by with an unchanged fingerprint (and a new Expires).
C7_Witness ==
  /\ pc = "sleep1"
  /\ now >= PollSleep
  /\ metadata # None
  /\ metadata.cam_id \in Range(expiring)
  /\ metadata.ETag = CAMERAS[metadata.cam_id].ETag
  /\ metadata.Expires # CAMERAS[metadata.cam_id].Expires

\* C8: a cycle has at most one publish; once found_one is set the
\* revalidation loop is over and only expired cameras are fetched; the
\* only change of hits is the step after the publish, which adds 1 to the
\* hits of the published camera alone.
C8_OneChangePerCycle ==
  /\ [](/\ pubs = (IF found_one \/ pc = "install" THEN 1 ELSE 0)
        /\ found_one => pc \in {"refresh", "cooldown", "classify"})
  /\ [][/\ (found_one /\ FetchStep({"detect", "refetch", "refresh"}))
             => Target \in Range(expired) /\ Target \notin Range(expiring)
        /\ CAMERA_STATS' # CAMERA_STATS /\ pc # "stats"
             => /\ pc = "install"
                /\ CAM_ID = Target
                /\ CAMERA_STATS' = [CAMERA_STATS EXCEPT ![Target] = @ + 1]
                /\ found_one']_vars

\* The first of two expiring cameras changed: the second is not fetched.
C8_Witness ==
  /\ found_one
  /\ Len(expiring) = 2
  /\ metadata.cam_id = expiring[1]
  /\ CAMERA_STATS[expiring[1]] = 1
  /\ pc = "cooldown"

\* C9: the record of an expired camera changes only by its own successful
\* fetch of line 153; a failed fetch leaves CAMERAS as it is; a camera
\* whose fetch failed is still expired, and the next classification finds
\* it expired.
C9_FailedRefreshStaysExpired ==
  /\ [](\A c \in unavailable :
          c \in Range(expired) /\ get_delta(CAMERAS[c], now) < 0)
  /\ [][/\ \A c \in Range(expired) :
             CAMERAS'[c] # CAMERAS[c]
               => pc = "refresh" /\ Target = c /\ metadata' = CAMERAS'[c]
        /\ (FetchStep({"refresh"}) /\ metadata' = None)
             => CAMERAS' = CAMERAS /\ Target \in unavailable'
        /\ (pc = "classify" /\ pc' # pc)
             => unavailable \subseteq Range(expired')]_vars

\* A cycle with a failed fetch of an expired camera is over.
C9_Witness ==
  /\ pc = "classify"
  /\ now >= Cooldown
  /\ unavailable # {}

\* C10: from the first classification on, CAMERAS and CAMERA_STATS have
\* the same keys, which never change, and every camera fetched is one of
\* them.
C10_ExcludedForGood ==
  /\ [](pc \notin {"probe", "stats"} =>
          /\ DOMAIN CAMERAS = DOMAIN CAMERA_STATS
          /\ Range(expired) \cup Range(expiring) \subseteq DOMAIN CAMERAS)
  /\ [][/\ pc \notin {"probe", "stats"} =>
             /\ DOMAIN CAMERAS' = DOMAIN CAMERAS
             /\ DOMAIN CAMERA_STATS' = DOMAIN CAMERA_STATS
        /\ FetchStep({"detect", "refetch", "refresh"}) =>
             Target \in DOMAIN CAMERAS]_vars

\* The first camera was not admitted and the second has been fetched again.
C10_Witness ==
  /\ Len(CAMERA_INFO) = 2
  /\ DOMAIN CAMERAS = {2}
  /\ DOMAIN CAMERA_STATS = {2}
  /\ pc = "cooldown"
  /\ expired = <<2>>

\* The calls of request_image the scheduler makes: lines 107, 139, 145, 153.
Fetches == {"probe", "detect", "refetch", "refresh"}

\* C11, as claimed: a response with a status other than 200, another
\* content type, the sentinel fingerprint, a transport exception or a date
\* header that does not parse makes request_image return None; a fetch
\* that returns None changes neither CAMERAS, nor IMAGE, CAM_ID and
\* IMAGE_ID, nor CAMERA_STATS; and monitor_cameras never ends.
C11_FailuresNeverFatal ==
  /\ [](/\ pc # "dead"
        /\ \A c \in Cams : \A r \in Failures(now) :
             Metadata(c, r) = None /\ ProbeResult(c, r) = None)
  /\ [][(FetchStep(Fetches) /\ metadata' = None)
          => /\ CAMERAS' = CAMERAS
             /\ hub' = hub
             /\ CAMERA_STATS' = CAMERA_STATS]_vars

\* C12, as claimed: whenever a session takes no step (it waits for a new
\* version, it is suspended at its yield, or it is closed), a publish that
\* is due can take IMAGE_CV and complete, and every other session that is
\* about to yield the current picture can do so.
C12_NobodyBlocks ==
  \A s \in Subs :
    sub[s].pc \in {"wait", "yield", "closed"} =>
      /\ pc = "publish" => ENABLED handle_new_image
      /\ \A t \in Subs \ {s} : sub[t].pc = "enter" => ENABLED Yield(t)

\* C13: from its yield to the start of its wait a session holds IMAGE_CV
\* and the hub is as it was yielded; the version a waiting session
\* remembers is the version of the picture it yielded last; no publish
\* happens while a session is between its yield and its wait; a yield is
\* the picture and version of the hub at one moment; version 0 is only
\* ever yielded with the initial picture, and two yields of one version
\* are yields of one picture.
C13_OnePublishPerYield ==
  /\ [](\A s \in Subs :
          /\ sub[s].pc = "yield" =>
               IMAGE_CV = {s} /\ LastYield(s) = <<IMAGE, IMAGE_ID>>
          /\ sub[s].pc \in {"wait", "woken"} =>
               /\ sub[s].cur_id = LastYield(s)[2]
               /\ sub[s].cur_id = IMAGE_ID => LastYield(s)[1] = IMAGE
          /\ \A i \in 1..Len(yields[s]) :
               /\ yields[s][i][2] = 0 <=> yields[s][i][1] = InitImage
               /\ \A t \in Subs : \A j \in 1..Len(yields[t]) :
                    yields[s][i][2] = yields[t][j][2] => yields[s][i] = yields[t][j])
  /\ [][/\ hub' # hub => \A s \in Subs : sub[s].pc # "yield"
        /\ \A s \in Subs :
             yields'[s] # yields[s] =>
               /\ yields'[s] = Append(yields[s], <<IMAGE, IMAGE_ID>>)
               /\ hub' = hub]_vars

\* A session that attached after the first publish has yielded its
\* picture and waits with that version in mind.
C13_Witness ==
  \E s \in Subs :
    /\ sub[s].pc = "wait"
    /\ Versions(s) = <<1>>
    /\ sub[s].cur_id = 1
    /\ LastYield(s) = <<IMAGE, IMAGE_ID>>

\* A fetch of line 139 that returns another fingerprint than the stored
\* one changes nothing and is followed by the fetch of line 145 for the
\* same camera.
ChangeDetected ==
  (FetchStep({"detect"}) /\ Changed(metadata', CAMERAS[Target]))
    => /\ pc' = "refetch" /\ idx' = idx
       /\ CAMERAS' = CAMERAS /\ hub' = hub /\ CAMERA_STATS' = CAMERA_STATS

\* Once the fetch of line 145 has its metadata: its picture is published,
\* as the one publish of the cycle; then its metadata is stored for the
\* camera, the camera's hits go up by one, and the scan of the bucket is
\* over for this cycle.
ChangeInstalled ==
  /\ (pc = "publish" /\ pc' # pc)
       => /\ pc' = "install" /\ idx' = idx
          /\ metadata.cam_id = Target
          /\ IMAGE' = Content(Target, metadata.ETag)
          /\ CAM_ID' = Target
          /\ IMAGE_ID' = IMAGE_ID + 1
          /\ pubs = 0 /\ pubs' = 1
  /\ (pc = "install" /\ pc' # pc)
       => /\ CAMERAS' = [CAMERAS EXCEPT ![Target] = metadata]
          /\ CAMERA_STATS' = [CAMERA_STATS EXCEPT ![Target] = @ + 1]
          /\ hub' = hub
          /\ found_one'
          /\ pc' \in {"refresh", "cooldown"}

\* C14, as claimed: whenever a fetch of an expiring camera returns another
\* fingerprint than the stored one, the cycle goes on to install a new
\* record for it, publish one picture, add one to its hits and stop.
C14_ChangeAlwaysInstalled ==
  [][/\ ChangeDetected
     /\ FetchStep({"refetch"}) => pc' = "publish"
     /\ ChangeInstalled]_vars

\* C14, amended: the same, provided the second fetch (line 145) succeeds;
\* when it fails, nothing is stored, published or counted and the scan
\* goes on with the next member of the bucket.
C14_ConfirmedChangeInstalled ==
  [][/\ ChangeDetected
     /\ (FetchStep({"refetch"}) /\ metadata' # None)
          => pc' = "publish" /\ idx' = idx
     /\ (FetchStep({"refetch"}) /\ metadata' = None)
          => /\ pc' \in {"detect", "sleep1"}
             /\ CAMERAS' = CAMERAS /\ hub' = hub /\ CAMERA_STATS' = CAMERA_STATS
             /\ ~found_one'
     /\ ChangeInstalled]_vars

\* A change was confirmed at the second tick or later, and the expired
\* cameras of the cycle are next.
C14_Witness ==
  /\ pc = "refresh"
  /\ found_one
  /\ now >= PollSleep + PollSleep
  /\ IMAGE_ID = 1
  /\ IMAGE = Content(CAM_ID, metadata.ETag)
  /\ CAMERAS[CAM_ID] = metadata
  /\ CAMERA_STATS[CAM_ID] = 1

\* C15: expired is set by the classification alone and names no camera
\* twice; the loop of line 152 starts at its first member and fetches
\* member after member, each once, up to the last; none of its fetches
\* changes IMAGE, CAM_ID, IMAGE_ID or any hits; a successful one replaces
\* the camera's record by the metadata fetched, whatever its fingerprint.
C15_RefreshOncePerExpired ==
  /\ [](/\ pc = "refresh" => idx \in 1..Len(expired)
        /\ \A i, j \in 1..Len(expired) : expired[i] = expired[j] => i = j)
  /\ [][/\ pc # "classify" => expired' = expired
        /\ (pc # "refresh" /\ pc' = "refresh") => idx' = 1
        /\ FetchStep({"refresh"}) =>
             /\ hub' = hub
             /\ CAMERA_STATS' = CAMERA_STATS
             /\ idx < Len(expired) => pc' = "refresh" /\ idx' = idx + 1
             /\ idx = Len(expired) => pc' = "cooldown"
             /\ metadata' # None =>
                  CAMERAS' = [CAMERAS EXCEPT ![expired[idx]] = metadata']
             /\ metadata' = None => CAMERAS' = CAMERAS]_vars

\* The camera on the air was found expired in a later cycle, and its
\* record was replaced by one of another fingerprint than its picture's:
\* nothing was published and nothing counted.
C15_Witness ==
  /\ pc = "cooldown"
  /\ IMAGE_ID = 1
  /\ CAM_ID \in Range(expired)
  /\ metadata = CAMERAS[CAM_ID]
  /\ CAMERAS[CAM_ID].ETag # IMAGE[2]
  /\ CAMERA_STATS[CAM_ID] = 1

\* Where the scheduler stands inside the while loop of lines 133-150.
Revalidation == {"sleep1", "detect", "refetch", "publish", "install"}

\* C16: the scheduler is inside the revalidation loop only with a bucket
\* that is not empty and no change confirmed yet; it leaves the loop only
\* by the install that follows a successful second fetch; the
\* classification goes straight past the loop only with an empty bucket;
\* so the loop over expired and the sleep of line 157 are reached only
\* after a confirmed change or with an empty bucket.
C16_RevalidationEndsOnChange ==
  /\ [](/\ pc \in Revalidation => expiring # << >> /\ ~found_one
        /\ pc \in {"publish", "install"} => metadata # None
        /\ pc \in {"refresh", "cooldown"} => found_one \/ expiring = << >>)
  /\ [][/\ (pc \in Revalidation /\ pc' \notin Revalidation)
             => /\ pc = "install"
                /\ found_one'
                /\ pc' \in {"refresh", "cooldown"}
        /\ (pc = "classify" /\ pc' \in {"refresh", "cooldown"})
             => expiring' = << >>]_vars

\* Two ticks have gone by, the last fetch failed, no change is confirmed:
\* the expired cameras of the cycle are still waiting for their fetch.
C16_Witness ==
  /\ pc = "sleep1"
  /\ now >= PollSleep + PollSleep
  /\ ~found_one
  /\ metadata = None
  /\ expired # << >>

\* The cameras of the two buckets of the current cycle.
Bucketed == Range(expired) \cup Range(expiring)

\* C17: a classification that completes puts an admitted camera in expired
\* exactly if its Expires lies before now, and in expiring exactly if it
\* lies at now or up to Threshold seconds (Threshold excluded) after it;
\* no camera is in both; until the next classification the buckets keep
\* their members, only their cameras are fetched, and the record of a
\* camera in neither bucket stays as it is.
C17_Classification ==
  /\ [](Range(expired) \cap Range(expiring) = {})
  /\ [][/\ (pc = "classify" /\ pc' \notin {"classify", "dead"}) =>
             \A c \in DOMAIN CAMERAS :
               /\ c \in Range(expired') <=> CAMERAS[c].Expires - now < 0
               /\ c \in Range(expiring') <=>
                    /\ 0 <= CAMERAS[c].Expires - now
                    /\ CAMERAS[c].Expires - now < Threshold
        /\ pc # "classify" =>
             /\ Range(expired') = Range(expired)
             /\ Range(expiring') = Range(expiring)
        /\ FetchStep({"detect", "refetch", "refresh"}) => Target \in Bucketed
        /\ pc \notin {"probe", "stats"} =>
             \A c \in DOMAIN CAMERAS \ Bucketed : CAMERAS'[c] = CAMERAS[c]]_vars

\* Both ends of the expiring window at one classification: a camera that
\* expires this very second is expiring, and one that expires in exactly
\* Threshold seconds is in neither bucket.
C17_Witness ==
  /\ pc = "sleep1"
  /\ \E c, d \in DOMAIN CAMERAS :
       /\ CAMERAS[c].Expires - now = 0
       /\ c \in Range(expiring)
       /\ CAMERAS[d].Expires - now = Threshold
       /\ d \notin Bucketed

\* C18: inside the revalidation loop expiring keeps its members (and names
\* none twice); only the shuffle of a tick changes their order; a tick
\* starts at the first member; a fetch of line 139 or 145 is a fetch of
\* the current member; when the scan passes a member (its fetch failed or
\* showed no change) it goes to the next one, and only after the last
\* member does the tick end, and the next tick starts.
C18_BucketFixedAllFetched ==
  /\ [](/\ pc \in Revalidation \ {"sleep1"} => idx \in 1..Len(expiring)
        /\ \A i, j \in 1..Len(expiring) : expiring[i] = expiring[j] => i = j)
  /\ [][/\ pc \in Revalidation =>
             /\ Range(expiring') = Range(expiring)
             /\ Len(expiring') = Len(expiring)
             /\ pc # "sleep1" => expiring' = expiring
        /\ (pc = "sleep1" /\ pc' # pc) => pc' = "detect" /\ idx' = 1
        /\ (FetchStep({"detect", "refetch"}) /\ metadata' # None)
             => metadata'.cam_id = expiring[idx]
        /\ (FetchStep({"detect", "refetch"}) /\ pc' \notin {"refetch", "publish"})
             => /\ idx < Len(expiring) => pc' = "detect" /\ idx' = idx + 1
                /\ idx = Len(expiring) => pc' = "sleep1"
        /\ (FetchStep({"detect", "refetch"}) /\ metadata' = None)
             => pc' \in {"detect", "sleep1"}]_vars

\* In the second tick (or a later one) of a bucket of two, the fetch of
\* the first member failed and the second member is next.
C18_Witness ==
  /\ pc = "detect"
  /\ idx = 2
  /\ Len(expiring) = 2
  /\ now >= PollSleep + PollSleep
  /\ metadata = None

\* C19, as claimed: a step that changes hits installs, for the camera
\* counted, a record of another fingerprint than the one stored before.
C19_HitMeansNewFingerprint ==
  [][(CAMERA_STATS' # CAMERA_STATS /\ pc # "stats")
       => CAMERAS'[Target].ETag # CAMERAS[Target].ETag]_vars

\* C19, amended: hits change only by the step of lines 147-149, by one and
\* for the current member alone, which stores the metadata of the second
\* fetch; that step comes after the publish, the publish after a
\* successful second fetch, and the second fetch after a fetch of line 139
\* that returned another fingerprint than the stored one; the stored
\* record is the same all the way from that fetch to the install. The
\* fingerprint of the second fetch is compared with nothing.
C19_HitFollowsDetectedChange ==
  [][/\ (CAMERA_STATS' # CAMERA_STATS /\ pc # "stats")
          => /\ pc = "install"
             /\ CAMERA_STATS' = [CAMERA_STATS EXCEPT ![expiring[idx]] = @ + 1]
             /\ CAMERAS' = [CAMERAS EXCEPT ![expiring[idx]] = metadata]
     /\ (pc' = "install" /\ pc # pc') => pc = "publish" /\ idx' = idx
     /\ (pc' = "publish" /\ pc # pc')
          => pc = "refetch" /\ idx' = idx /\ metadata' # None
     /\ (pc' = "refetch" /\ pc # pc')
          => /\ pc = "detect" /\ idx' = idx
             /\ metadata' # None
             /\ metadata'.ETag # CAMERAS[expiring[idx]].ETag
     /\ pc \in {"detect", "refetch", "publish"}
          => CAMERAS' = CAMERAS /\ expiring' = expiring]_vars

\* The second fetch returned the fingerprint that is stored (the upstream
\* picture changed back): its picture is on the air and the hit is about
\* to be counted.
C19_Witness ==
  /\ pc = "install"
  /\ metadata.ETag = CAMERAS[Target].ETag
  /\ IMAGE = Content(Target, metadata.ETag)
  /\ CAM_ID = Target

\* The sum of f over the keys S.
RECURSIVE SumOver(_, _)
SumOver(f, S) ==
  IF S = {} THEN 0
  ELSE LET c == CHOOSE x \in S : TRUE IN f[c] + SumOver(f, S \ {c})

\* The hits of all cameras together.
TotalHits == SumOver(CAMERA_STATS, DOMAIN CAMERA_STATS)

\* C20: the hits of all cameras together are IMAGE_ID, except between a
\* publish and the install that follows it, where they are IMAGE_ID - 1
\* (so they are IMAGE_ID at the sleep of line 157 and at a
\* classification); a publish is made with the two equal, and the next
\* step of the scheduler counts one hit for the published camera and
\* stores the record of the published picture.
C20_HitsTrackVersion ==
  /\ [](/\ TotalHits <= IMAGE_ID
        /\ TotalHits >= IMAGE_ID - 1
        /\ pc \in {"cooldown", "classify"} => TotalHits = IMAGE_ID
        /\ TotalHits # IMAGE_ID <=> pc = "install")
  /\ [][/\ hub' # hub => TotalHits = IMAGE_ID /\ pc' = "install"
        /\ (pc = "install" /\ pc' # pc)
             => /\ CAMERA_STATS' = [CAMERA_STATS EXCEPT ![CAM_ID] = @ + 1]
                /\ CAMERAS' = [CAMERAS EXCEPT ![CAM_ID] = metadata]
                /\ IMAGE = Content(CAM_ID, CAMERAS'[CAM_ID].ETag)
                /\ hub' = hub]_vars

\* Two cycles have each published a picture, of one camera and then of
\* the other, and each camera has one hit.
C20_Witness ==
  /\ pc = "cooldown"
  /\ IMAGE_ID = 2
  /\ Cardinality(DOMAIN CAMERA_STATS) = 2
  /\ \A c \in DOMAIN CAMERA_STATS : CAMERA_STATS[c] = 1

====
